---- MODULE Spec2Model ----
(***************************************************************************)
(* Model of the back-end service of media-timeline:                        *)
(*   - the grouping loop of get_servers_on_cluster (api/utils.py 45-61),   *)
(*   - process_user_data (api/utils.py 72-96),                             *)
(*   - the routes of api/routes.py over the module-level client_docker_map *)
(*     and the root route of main.py.                                      *)
(* Python values are written as the text of their literal: None is         *)
(* "None", the integer 0 is "0", the empty string is "''", the string k1   *)
(* is "'k1'".  A row (psycopg2 DictRow) is a function from column names to *)
(* such values.  A Python dict is a record [keys, vals]: keys is the       *)
(* sequence of keys in insertion order, vals the mapping.                  *)
(***************************************************************************)
EXTENDS Integers, Sequences, FiniteSets, TLC

VARIABLES
    kind,               \* invocation -> which materializer it runs
    result,             \* invocation -> rows fetched by cursor.fetchall() (utils.py 42)
    user_data,          \* invocation -> argument of process_user_data
    pc,                 \* invocation -> position in the function body
    row_i,              \* invocation -> number of rows the for loop has consumed
    servers,            \* frame -> the local dict `servers` (utils.py 45)
    user,               \* frame -> the local dict `user` (utils.py 76)
    ret,                \* invocation -> returned value
    client_docker_map,  \* routes.py 13
    responses           \* responses the routes have sent, in order

vars == <<kind, result, user_data, pc, row_i, servers, user, ret,
          client_docker_map, responses>>

matVars == <<kind, result, user_data, pc, row_i, servers, user, ret>>
routeVars == <<client_docker_map, responses>>

(***************************************************************************)
(* Bounds                                                                  *)
(***************************************************************************)
MaxRows == 3        \* longest row sequence given to a single invocation
MaxConcRows == 2    \* longest row sequence of each concurrent invocation
MaxRequests == 3    \* number of HTTP requests served

(***************************************************************************)
(* Python values                                                           *)
(***************************************************************************)
None == "None"

\* bool(v) is False for None, False, numeric zero and the empty string
Falsy == {"None", "False", "0", "0.0", "''"}

\* `if row["client_id"]:` (utils.py 86): the truth value of v
Truthy(v) == v \notin Falsy

\* key.startswith(prefix) (utils.py 57)
startswith(key, prefix) ==
    /\ Len(key) >= Len(prefix)
    /\ SubSeq(key, 1, Len(prefix)) = prefix

(***************************************************************************)
(* Python dict: insertion ordered                                          *)
(***************************************************************************)
EmptyDict == [keys |-> <<>>, vals |-> <<>>]

\* k in d
DictContains(d, k) == k \in DOMAIN d.vals

\* d[k] = v: a new key goes last, an existing key keeps its place
DictSet(d, k, v) ==
    [keys |-> IF k \in DOMAIN d.vals THEN d.keys ELSE Append(d.keys, k),
     vals |-> (k :> v) @@ d.vals]

DictValuesReversed(d) ==
    [i \in 1..Len(d.keys) |-> d.vals[d.keys[Len(d.keys) + 1 - i]]]

\* list(d.values()) (utils.py 61)
DictValues(d) == [i \in 1..Len(d.keys) |-> d.vals[d.keys[i]]]

(***************************************************************************)
(* Rows of the query of get_servers_on_cluster (utils.py 33-38)            *)
(***************************************************************************)
ServerIds == {"'s1'", "'s2'", "'s3'"}
Timestamps == {"'t1'", "'t2'"}

\* the client side of a left-join row: all null, or the columns of a client
ClientSide(c) ==
    IF c = None
    THEN [id |-> None, name |-> None, user_id |-> None,
          created_at |-> None, updated_at |-> None]
    ELSE [id |-> c, name |-> "'name'", user_id |-> "'u1'",
          created_at |-> "'t3'", updated_at |-> "'t4'"]

ServerRow(s, t, c) ==
    [id |-> s, created_at |-> t, updated_at |-> t, cluster_name |-> "'c'",
     client_id |-> ClientSide(c).id,
     client_name |-> ClientSide(c).name,
     client_user_id |-> ClientSide(c).user_id,
     client_created_at |-> ClientSide(c).created_at,
     client_updated_at |-> ClientSide(c).updated_at]

ServerRows ==
    {ServerRow(s, t, c) : s \in ServerIds, t \in Timestamps,
                          c \in {None, "'k1'", "'k2'"}}

ConcServerRows ==
    {ServerRow("'s1'", "'t1'", None), ServerRow("'s1'", "'t2'", "'k1'"),
     ServerRow("'s2'", "'t1'", "'k2'")}

SeqsUpTo(S, n) == UNION {[1..m -> S] : m \in 0..n}

(***************************************************************************)
(* get_servers_on_cluster: the grouping loop (utils.py 45-61)              *)
(***************************************************************************)
ServerKeyByClient(row) == row["client_id"]

\* server_id = row["id"] (utils.py 47)
ServerKey(row) == row["id"]

\* the dict literal of utils.py 49-55
NewServer(row) ==
    [id |-> ServerKey(row),
     created_at |-> row["created_at"],
     updated_at |-> row["updated_at"],
     cluster_name |-> row["cluster_name"],
     clients |-> <<>>]

\* {key: row[key] for key in row.keys() if key.startswith("client_")} (utils.py 57)
ClientColumns(row) ==
    [key \in {k \in DOMAIN row : startswith(k, "client_")} |-> row[key]]

\* the loop body with the append guarded by a null check on client_id
GroupRowNullChecked(d, row) ==
    LET server_id == ServerKey(row)
        d1 == IF ~DictContains(d, server_id)
              THEN DictSet(d, server_id, NewServer(row))
              ELSE d
        s1 == d1.vals[server_id]
    IN  IF row["client_id"] = None
        THEN d1
        ELSE [d1 EXCEPT !.vals[server_id] =
                [s1 EXCEPT !.clients = Append(s1.clients, ClientColumns(row))]]

\* one iteration of the for loop (utils.py 47-58) on the dict d
GroupRow(d, row) ==
    LET server_id == ServerKey(row)
        d1 == IF ~DictContains(d, server_id)
              THEN DictSet(d, server_id, NewServer(row))
              ELSE d
        s1 == d1.vals[server_id]
    IN  [d1 EXCEPT !.vals[server_id] =
            [s1 EXCEPT !.clients = Append(s1.clients, ClientColumns(row))]]

\* the whole loop run alone on rows, then list(servers.values())
RECURSIVE GroupRows(_, _)
GroupRows(d, rows) ==
    IF rows = <<>> THEN d ELSE GroupRows(GroupRow(d, Head(rows)), Tail(rows))

GroupServers(rows) == DictValues(GroupRows(EmptyDict, rows))

(***************************************************************************)
(* Rows of the query of get_client_data (utils.py 19-24)                   *)
(***************************************************************************)
UserIds == {"'u1'", "'u2'"}
Profiles == {"'A'", "'B'"}

\* client_id values: null, the integer 0, the empty string, an ordinary id
ClientIdValues == {None, "0", "''", "'k1'"}

UserRow(u, n, c) ==
    [id |-> u, name |-> n,
     email |-> IF n = "'A'" THEN "'a@x'" ELSE "'b@x'",
     emailVerified |-> IF n = "'A'" THEN None ELSE "'t0'",
     image |-> IF n = "'A'" THEN "'a.png'" ELSE None,
     client_id |-> c,
     user_id |-> IF c = None THEN None ELSE u,
     created_at |-> IF c = None THEN None ELSE "'t1'",
     updated_at |-> IF c = None THEN None ELSE "'t2'"]

UserRows == {UserRow(u, n, c) : u \in UserIds, n \in Profiles, c \in ClientIdValues}

ConcUserRows ==
    {UserRow("'u1'", "'A'", None), UserRow("'u1'", "'A'", "'k1'"),
     UserRow("'u2'", "'B'", "'k2'")}

\* an argument of process_user_data: None or a list of rows
NoneArg == [tag |-> "None", items |-> <<>>]
ListArg(rows) == [tag |-> "list", items |-> rows]

(***************************************************************************)
(* process_user_data (utils.py 72-96)                                      *)
(***************************************************************************)
IsNoneArg(arg) == arg.tag = "None"

\* `not user_data` (utils.py 73): true of None and of the empty list
NotArg(arg) == arg.tag = "None" \/ Len(arg.items) = 0

NewUserFromLast(rows) ==
    [id |-> rows[Len(rows)]["id"],
     name |-> rows[Len(rows)]["name"],
     email |-> rows[Len(rows)]["email"],
     emailVerified |-> rows[Len(rows)]["emailVerified"],
     image |-> rows[Len(rows)]["image"],
     clients |-> <<>>]

\* the dict literal of utils.py 76-83; rows is non-empty
NewUser(rows) ==
    [id |-> rows[1]["id"],
     name |-> rows[1]["name"],
     email |-> rows[1]["email"],
     emailVerified |-> rows[1]["emailVerified"],
     image |-> rows[1]["image"],
     clients |-> <<>>]

UserClientFromId(row) ==
    [id |-> row["id"],
     name |-> row["name"],
     user_id |-> row["user_id"],
     created_at |-> row["created_at"],
     updated_at |-> row["updated_at"]]

\* the dict literal of utils.py 87-93
UserClient(row) ==
    [id |-> row["client_id"],
     name |-> row["name"],
     user_id |-> row["user_id"],
     created_at |-> row["created_at"],
     updated_at |-> row["updated_at"]]

\* one iteration of the for loop (utils.py 86-94) on the dict u
UserRowStep(u, row) ==
    IF Truthy(row["client_id"])
    THEN [u EXCEPT !.clients = Append(u.clients, UserClient(row))]
    ELSE u

RECURSIVE UserRowsFold(_, _)
UserRowsFold(u, rows) ==
    IF rows = <<>> THEN u ELSE UserRowsFold(UserRowStep(u, Head(rows)), Tail(rows))

\* the value returned for a non-empty list of rows, the function run alone
BuildUser(rows) == UserRowsFold(NewUser(rows), rows)

(***************************************************************************)
(* Invocations of the two functions.  Each call has its own frame holding  *)
(* its locals; the steps of different calls interleave.                    *)
(***************************************************************************)
Invocations == {1, 2}

Unbound == "unbound"
NoReturn == [tag |-> "unset", val |-> <<>>]

FrameShared(p) == 1

\* the frame holding the locals `servers` (utils.py 45) and `user` (utils.py 76)
\* of invocation p: allocated by the call itself
Frame(p) == p

ServerInputs(rows, n) ==
    {[kind |-> "get_servers_on_cluster", result |-> r, user_data |-> NoneArg] :
        r \in SeqsUpTo(rows, n)}

UserInputs(rows, n) ==
    {[kind |-> "process_user_data", result |-> <<>>, user_data |-> a] :
        a \in {NoneArg} \cup {ListArg(r) : r \in SeqsUpTo(rows, n)}}

\* the state when the calls in I are entered on the inputs inp
InitCalls(I, inp) ==
    /\ kind = [p \in I |-> inp[p].kind]
    /\ result = [p \in I |-> inp[p].result]
    /\ user_data = [p \in I |-> inp[p].user_data]
    /\ pc = [p \in I |-> "start"]
    /\ row_i = [p \in I |-> 0]
    /\ servers = [p \in I |-> Unbound]
    /\ user = [p \in I |-> Unbound]
    /\ ret = [p \in I |-> NoReturn]

InitRoutes ==
    /\ client_docker_map = <<>>
    /\ responses = <<>>

\* servers = {} (utils.py 45)
ServersStart(p) ==
    /\ kind[p] = "get_servers_on_cluster"
    /\ pc[p] = "start"
    /\ servers' = [servers EXCEPT ![Frame(p)] = EmptyDict]
    /\ pc' = [pc EXCEPT ![p] = "loop"]
    /\ UNCHANGED <<kind, result, user_data, row_i, user, ret, routeVars>>

\* one iteration of `for row in result` (utils.py 46-58)
ServersIter(p) ==
    /\ kind[p] = "get_servers_on_cluster"
    /\ pc[p] = "loop"
    /\ row_i[p] < Len(result[p])
    /\ servers' = [servers EXCEPT
                     ![Frame(p)] = GroupRow(@, result[p][row_i[p] + 1])]
    /\ row_i' = [row_i EXCEPT ![p] = @ + 1]
    /\ UNCHANGED <<kind, result, user_data, pc, user, ret, routeVars>>

\* return list(servers.values()) (utils.py 61)
ServersReturn(p) ==
    /\ kind[p] = "get_servers_on_cluster"
    /\ pc[p] = "loop"
    /\ row_i[p] = Len(result[p])
    /\ ret' = [ret EXCEPT ![p] =
                 [tag |-> "list", val |-> DictValues(servers[Frame(p)])]]
    /\ pc' = [pc EXCEPT ![p] = "done"]
    /\ UNCHANGED <<kind, result, user_data, row_i, servers, user, routeVars>>

\* utils.py 73-83: return None on a falsy argument, else build `user` from
\* user_data[0]; indexing an empty list raises IndexError
UserStart(p) ==
    /\ kind[p] = "process_user_data"
    /\ pc[p] = "start"
    /\ IF NotArg(user_data[p])
       THEN /\ ret' = [ret EXCEPT ![p] = [tag |-> "None", val |-> <<>>]]
            /\ pc' = [pc EXCEPT ![p] = "done"]
            /\ user' = user
       ELSE IF Len(user_data[p].items) = 0
       THEN /\ pc' = [pc EXCEPT ![p] = "raised"]
            /\ UNCHANGED <<ret, user>>
       ELSE /\ user' = [user EXCEPT ![Frame(p)] = NewUser(user_data[p].items)]
            /\ pc' = [pc EXCEPT ![p] = "loop"]
            /\ ret' = ret
    /\ UNCHANGED <<kind, result, user_data, row_i, servers, routeVars>>

\* one iteration of `for row in user_data` (utils.py 85-94)
UserIter(p) ==
    /\ kind[p] = "process_user_data"
    /\ pc[p] = "loop"
    /\ row_i[p] < Len(user_data[p].items)
    /\ user' = [user EXCEPT
                  ![Frame(p)] = UserRowStep(@, user_data[p].items[row_i[p] + 1])]
    /\ row_i' = [row_i EXCEPT ![p] = @ + 1]
    /\ UNCHANGED <<kind, result, user_data, pc, servers, ret, routeVars>>

\* return user (utils.py 96)
UserReturn(p) ==
    /\ kind[p] = "process_user_data"
    /\ pc[p] = "loop"
    /\ row_i[p] = Len(user_data[p].items)
    /\ ret' = [ret EXCEPT ![p] = [tag |-> "dict", val |-> user[Frame(p)]]]
    /\ pc' = [pc EXCEPT ![p] = "done"]
    /\ UNCHANGED <<kind, result, user_data, row_i, servers, user, routeVars>>

(***************************************************************************)
(* Routes (routes.py, main.py) and the container stubs (utils.py 64-70)    *)
(***************************************************************************)
RouteClientIds == {"c1", "c2"}
Queries == {"q1", "q2"}

Respond(route, args, body) ==
    /\ Len(responses) < MaxRequests
    /\ responses' = Append(responses, [route |-> route, args |-> args, body |-> body])

\* routes.py 15-22
get_servers ==
    /\ Respond("/servers", <<>>,
               <<[id |-> "server1", name |-> "Server 1"],
                 [id |-> "server2", name |-> "Server 2"]>>)
    /\ UNCHANGED <<client_docker_map, matVars>>

\* routes.py 24-28: str(timedelta(days=2, hours=5, minutes=30))
get_uptime ==
    /\ Respond("/uptime", <<>>, "2 days, 5:30:00")
    /\ UNCHANGED <<client_docker_map, matVars>>

\* routes.py 30-32
get_status ==
    /\ Respond("/status", <<>>, [status |-> 200])
    /\ UNCHANGED <<client_docker_map, matVars>>

\* routes.py 34-42; a container object is truthy, dict.get of a missing key is None
execute_query(client_id, query) ==
    /\ Respond("/query/{client_id}/{query}", <<client_id, query>>,
               IF client_id \in DOMAIN client_docker_map
               THEN "Executed query '" \o query \o "' on container '"
                    \o client_docker_map[client_id].name
                    \o "' for client_id '" \o client_id \o "'"
               ELSE "No container found for client_id '" \o client_id \o "'")
    /\ UNCHANGED <<client_docker_map, matVars>>

\* routes.py 44-47
get_mappings ==
    /\ Respond("/mappings", <<>>,
               [client_id \in DOMAIN client_docker_map |->
                    client_docker_map[client_id].name])
    /\ UNCHANGED <<client_docker_map, matVars>>

\* routes.py 49-59
get_client_status(client_id) ==
    /\ Respond("/status/{client_id}", <<client_id>>,
               IF client_id \in DOMAIN client_docker_map
               THEN [created |-> "Yes",
                     running |-> IF client_docker_map[client_id].status = "running"
                                 THEN "Yes" ELSE "No"]
               ELSE [created |-> "No", running |-> "No"])
    /\ UNCHANGED <<client_docker_map, matVars>>

\* main.py 10-12
root ==
    /\ Respond("/", <<>>, [message |-> "Hello from the Python backend service!"])
    /\ UNCHANGED <<client_docker_map, matVars>>

RegisterContainer(m, user_id) ==
    (user_id :> [name |-> "container-" \o user_id, status |-> "running"]) @@ m

\* the effect of create_docker_container on the mapping: the body is `pass`
\* (utils.py 64-66)
CreatedContainers(m, user_id) == m

create_docker_container(user_id) ==
    /\ client_docker_map' = CreatedContainers(client_docker_map, user_id)
    /\ UNCHANGED <<responses, matVars>>

\* utils.py 68-70: the body is `pass`
maintain_container_health == UNCHANGED vars

(***************************************************************************)
(* Specifications                                                          *)
(***************************************************************************)
\* one call of get_servers_on_cluster on any row sequence of at most MaxRows rows
InitServers ==
    /\ \E inp \in [{1} -> ServerInputs(ServerRows, MaxRows)] : InitCalls({1}, inp)
    /\ InitRoutes

NextServers ==
    \/ \E p \in DOMAIN pc : ServersStart(p)
    \/ \E p \in DOMAIN pc : ServersIter(p)
    \/ \E p \in DOMAIN pc : ServersReturn(p)

SpecServers == InitServers /\ [][NextServers]_vars

\* one call of process_user_data on None or any row sequence of at most MaxRows rows
InitUser ==
    /\ \E inp \in [{1} -> UserInputs(UserRows, MaxRows)] : InitCalls({1}, inp)
    /\ InitRoutes

NextUser ==
    \/ \E p \in DOMAIN pc : UserStart(p)
    \/ \E p \in DOMAIN pc : UserIter(p)
    \/ \E p \in DOMAIN pc : UserReturn(p)

SpecUser == InitUser /\ [][NextUser]_vars

\* the routes serving at most MaxRequests requests, and the stubs
InitService ==
    /\ InitCalls({}, <<>>)
    /\ InitRoutes

NextService ==
    \/ get_servers
    \/ get_uptime
    \/ get_status
    \/ \E c \in RouteClientIds, q \in Queries : execute_query(c, q)
    \/ get_mappings
    \/ \E c \in RouteClientIds : get_client_status(c)
    \/ root
    \/ \E c \in RouteClientIds : create_docker_container(c)
    \/ maintain_container_health

SpecService == InitService /\ [][NextService]_vars

\* concurrent calls of either function, their steps interleaved
Init ==
    /\ \E inp \in [Invocations -> ServerInputs(ConcServerRows, MaxConcRows)
                                  \cup UserInputs(ConcUserRows, MaxConcRows)] :
            InitCalls(Invocations, inp)
    /\ InitRoutes

Next ==
    \/ \E p \in DOMAIN pc : ServersStart(p)
    \/ \E p \in DOMAIN pc : ServersIter(p)
    \/ \E p \in DOMAIN pc : ServersReturn(p)
    \/ \E p \in DOMAIN pc : UserStart(p)
    \/ \E p \in DOMAIN pc : UserIter(p)
    \/ \E p \in DOMAIN pc : UserReturn(p)

Spec == Init /\ [][Next]_vars

(***************************************************************************)
(* Properties                                                              *)
(***************************************************************************)
ServersDone(p) == kind[p] = "get_servers_on_cluster" /\ pc[p] = "done"
UserDone(p) == kind[p] = "process_user_data" /\ pc[p] = "done"

RowIds(rows) == {rows[i]["id"] : i \in 1..Len(rows)}

\* the position of the first row with id s, 0 when there is none
FirstIndex(rows, s) ==
    LET at == {i \in 1..Len(rows) : rows[i]["id"] = s}
    IN  IF at = {} THEN 0 ELSE CHOOSE i \in at : \A j \in at : i <= j

RowsOfServer(rows, s) == LET Of(r) == r["id"] = s IN SelectSeq(rows, Of)
RowsWithClient(rows) == LET Has(r) == r["client_id"] # None IN SelectSeq(rows, Has)

ClientColumnNames ==
    {"client_id", "client_name", "client_user_id",
     "client_created_at", "client_updated_at"}

ClientProjection(row) == [c \in ClientColumnNames |-> row[c]]

\* C1: the grouping loop returns exactly one Server record per distinct row id:
\* as many records as distinct ids in the input, no two with the same id.
C1_OneRecordPerServerId ==
    \A p \in DOMAIN pc : ServersDone(p) =>
        LET out == ret[p].val
        IN  /\ ret[p].tag = "list"
            /\ Len(out) = Cardinality(RowIds(result[p]))
            /\ {out[k].id : k \in 1..Len(out)} = RowIds(result[p])
            /\ \A a, b \in 1..Len(out) : a # b => out[a].id # out[b].id

\* a call returned on three rows of which two share an id
C1_Witness ==
    \E p \in DOMAIN pc :
        /\ ServersDone(p)
        /\ Len(result[p]) = 3
        /\ Cardinality(RowIds(result[p])) = 2
        /\ Len(ret[p].val) = 2

\* C2: the returned records are ordered by the first occurrence of their id
\* in the input, also when rows of different servers are interleaved.
C2_FirstSeenOrder ==
    \A p \in DOMAIN pc : ServersDone(p) =>
        LET out == ret[p].val
        IN  \A a, b \in 1..Len(out) :
                a < b => FirstIndex(result[p], out[a].id)
                            < FirstIndex(result[p], out[b].id)

\* a call returned on rows of two servers interleaved as a, b, a
C2_Witness ==
    \E p \in DOMAIN pc :
        /\ ServersDone(p)
        /\ Len(result[p]) = 3
        /\ result[p][1]["id"] = result[p][3]["id"]
        /\ result[p][1]["id"] # result[p][2]["id"]
        /\ Len(ret[p].val) = 2

\* C3: for every server id s of the input, the clients list of the record for s
\* is the sequence, in input order, of the projections onto the client_ columns
\* of the rows with id s, null client columns included.
C3_ClientsAreRowProjections ==
    \A p \in DOMAIN pc : ServersDone(p) =>
        LET out == ret[p].val
        IN  /\ \A s \in RowIds(result[p]) : \E k \in 1..Len(out) : out[k].id = s
            /\ \A k \in 1..Len(out) :
                LET rows == RowsOfServer(result[p], out[k].id)
                IN  out[k].clients =
                        [j \in 1..Len(rows) |-> ClientProjection(rows[j])]

\* a call returned a server with two rows, one of them with a null client side
C3_Witness ==
    \E p \in DOMAIN pc :
        /\ ServersDone(p)
        /\ \E k \in 1..Len(ret[p].val) :
            /\ Len(ret[p].val[k].clients) = 2
            /\ \E j \in 1..2 : ret[p].val[k].clients[j]["client_id"] = None
            /\ \E j \in 1..2 : ret[p].val[k].clients[j]["client_id"] # None

\* C4: in both materializers a row whose client side is null produces no entry:
\* the number of entries of an entity's clients list equals the number of its
\* rows whose client_id is non-null.
C4_NoEntryForNullClient ==
    \A p \in DOMAIN pc :
        /\ ServersDone(p) =>
            \A k \in 1..Len(ret[p].val) :
                Len(ret[p].val[k].clients) =
                    Len(RowsWithClient(RowsOfServer(result[p], ret[p].val[k].id)))
        /\ (UserDone(p) /\ ret[p].tag = "dict") =>
            Len(ret[p].val.clients) = Len(RowsWithClient(user_data[p].items))

\* C5: process_user_data returns None, raising nothing, on None and on the
\* empty sequence, and a User record on every non-empty sequence.
C5_AbsentIffEmpty ==
    \A p \in DOMAIN pc : kind[p] = "process_user_data" =>
        /\ pc[p] # "raised"
        /\ pc[p] = "done" =>
            IF user_data[p].tag = "None" \/ user_data[p].items = <<>>
            THEN ret[p].tag = "None"
            ELSE ret[p].tag = "dict"

\* a call returned None on the empty list
C5_Witness ==
    \E p \in DOMAIN pc :
        /\ UserDone(p)
        /\ user_data[p] = ListArg(<<>>)
        /\ ret[p].tag = "None"

\* C6: the clients list of the returned User holds exactly one entry for each row
\* whose client_id is non-null, in row order, whatever the non-null value (0 and
\* the empty string included), and none for a row whose client_id is null.
C6_OneClientPerNonNullRow ==
    \A p \in DOMAIN pc : (UserDone(p) /\ ret[p].tag = "dict") =>
        LET rows == RowsWithClient(user_data[p].items)
        IN  /\ Len(ret[p].val.clients) = Len(rows)
            /\ \A j \in 1..Len(rows) :
                   ret[p].val.clients[j].id = rows[j]["client_id"]

\* an iteration of the loop of process_user_data appended an entry
C7_Appended(p) ==
    /\ kind[p] = "process_user_data"
    /\ pc[p] = "loop"
    /\ row_i'[p] = row_i[p] + 1
    /\ Len(user'[Frame(p)].clients) = Len(user[Frame(p)].clients) + 1

C7_Row(p) == user_data[p].items[row_i[p] + 1]
C7_Entry(p) == user'[Frame(p)].clients[Len(user'[Frame(p)].clients)]

\* C7 as stated: each appended Client takes id, name, user_id, created_at and
\* updated_at from the row's columns of the same names.
C7_ClientFromRowId ==
    [][\A p \in DOMAIN pc : C7_Appended(p) =>
          /\ C7_Entry(p).id = C7_Row(p)["id"]
          /\ C7_Entry(p).name = C7_Row(p)["name"]
          /\ C7_Entry(p).user_id = C7_Row(p)["user_id"]
          /\ C7_Entry(p).created_at = C7_Row(p)["created_at"]
          /\ C7_Entry(p).updated_at = C7_Row(p)["updated_at"]]_vars

\* C7 amended: each appended Client takes its id from the row's client_id column
\* and name, user_id, created_at and updated_at from the columns of those names.
C7_ClientFromRowClientId ==
    [][\A p \in DOMAIN pc : C7_Appended(p) =>
          /\ C7_Entry(p).id = C7_Row(p)["client_id"]
          /\ C7_Entry(p).name = C7_Row(p)["name"]
          /\ C7_Entry(p).user_id = C7_Row(p)["user_id"]
          /\ C7_Entry(p).created_at = C7_Row(p)["created_at"]
          /\ C7_Entry(p).updated_at = C7_Row(p)["updated_at"]
          /\ DOMAIN C7_Entry(p) = {"id", "name", "user_id", "created_at", "updated_at"}]_vars

\* the loop has just appended an entry for a row whose id differs from its client_id
C7_Witness ==
    \E p \in DOMAIN pc :
        /\ kind[p] = "process_user_data"
        /\ pc[p] = "loop"
        /\ row_i[p] >= 1
        /\ Truthy(user_data[p].items[row_i[p]]["client_id"])
        /\ user_data[p].items[row_i[p]]["client_id"] # user_data[p].items[row_i[p]]["id"]
        /\ Len(user[Frame(p)].clients) >= 1

\* C8: id, name, email, emailVerified and image of the returned User are those
\* columns of the first row, whatever the later rows hold.
C8_UserFieldsFromFirstRow ==
    \A p \in DOMAIN pc : (UserDone(p) /\ ret[p].tag = "dict") =>
        LET first == user_data[p].items[1]
        IN  /\ ret[p].val.id = first["id"]
            /\ ret[p].val.name = first["name"]
            /\ ret[p].val.email = first["email"]
            /\ ret[p].val.emailVerified = first["emailVerified"]
            /\ ret[p].val.image = first["image"]

\* a call returned a User on rows whose second row differs from the first in
\* id and in name
C8_Witness ==
    \E p \in DOMAIN pc :
        /\ UserDone(p)
        /\ ret[p].tag = "dict"
        /\ Len(user_data[p].items) >= 2
        /\ user_data[p].items[2]["id"] # user_data[p].items[1]["id"]
        /\ user_data[p].items[2]["name"] # user_data[p].items[1]["name"]

\* C9: client_docker_map is empty in every reachable state, so /query always
\* answers "No container found", /mappings the empty mapping and
\* /status/{client_id} created "No" and running "No".
C9_MapAlwaysEmpty ==
    /\ DOMAIN client_docker_map = {}
    /\ \A n \in 1..Len(responses) :
        LET r == responses[n]
        IN  /\ r.route = "/query/{client_id}/{query}" =>
                r.body = "No container found for client_id '" \o r.args[1] \o "'"
            /\ r.route = "/mappings" => DOMAIN r.body = {}
            /\ r.route = "/status/{client_id}" =>
                r.body = [created |-> "No", running |-> "No"]

\* the three routes that read the map have each answered
C9_Witness ==
    /\ Len(responses) = 3
    /\ responses[1].route = "/query/{client_id}/{query}"
    /\ responses[2].route = "/mappings"
    /\ responses[3].route = "/status/{client_id}"

\* the locals of call p as the function run alone on the rows consumed so far
AloneServers(p) == GroupRows(EmptyDict, SubSeq(result[p], 1, row_i[p]))
AloneUser(p) ==
    UserRowsFold(NewUser(user_data[p].items),
                 SubSeq(user_data[p].items, 1, row_i[p]))

\* C10: with the steps of several calls interleaved in any order, each call
\* holds and returns what it holds and returns when run alone on its input.
C10_NoInterference ==
    \A p \in DOMAIN pc :
        /\ (kind[p] = "get_servers_on_cluster" /\ pc[p] = "loop") =>
                servers[Frame(p)] = AloneServers(p)
        /\ ServersDone(p) => ret[p] = [tag |-> "list", val |-> GroupServers(result[p])]
        /\ (kind[p] = "process_user_data" /\ pc[p] = "loop") =>
                user[Frame(p)] = AloneUser(p)
        /\ UserDone(p) =>
                IF NotArg(user_data[p])
                THEN ret[p].tag = "None"
                ELSE ret[p] = [tag |-> "dict", val |-> BuildUser(user_data[p].items)]

\* two calls of the same function are both in the middle of their loops, on
\* different inputs
C10_Witness ==
    /\ pc[1] = "loop" /\ pc[2] = "loop"
    /\ kind[1] = kind[2]
    /\ row_i[1] = 1 /\ row_i[2] = 1
    /\ (result[1] # result[2] \/ user_data[1] # user_data[2])

====
